---- MODULE Spec2Model ----
(***************************************************************************)
(* Model of scripts/test-advanced.py: PrometheusAuthTester and main().      *)
(* One run of the script is a sequential walk through the test groups; each *)
(* step issues one HTTP request (_make_request), classifies the response    *)
(* and records the verdict (_print_result).  The server is the environment: *)
(* each request's response is drawn nondeterministically.                   *)
(***************************************************************************)
EXTENDS Integers, Sequences, FiniteSets, TLC

VARIABLES
    env,            \* os.environ restricted to the four PROM_* variables
    verbose,        \* self.verbose
    pc,             \* position of the run inside main / run_all_tests
    qi,             \* index of the next entry of `queries` in test_query_samples
    tests_passed,   \* self.tests_passed
    tests_failed,   \* self.tests_failed
    outcome,        \* the tuple returned by the latest _make_request call
    response,       \* what requests.get did for that call (server behaviour)
    request,        \* endpoint, query and credential of that call
    sent,           \* number of requests.get calls made so far
    results,        \* test names of the PASSED/FAILED lines printed so far
    lastLine,       \* the latest PASSED/FAILED line printed
    detailLines,    \* number of "Details:" lines printed so far
    lastDetail,     \* text of the latest "Details:" line printed
    skipNotices,    \* groups whose SKIPPED notice has been printed
    groupFailed,    \* FAILED lines printed by the test group now running
    srvAllDown,     \* every response so far was a transport failure
    srvAllOpen,     \* every response so far was a well-formed HTTP 200
    retval,         \* <<>> or <<b>>: value returned by run_all_tests
    exitCode        \* <<>> or <<n>>: exit status of the process

vars == <<env, verbose, pc, qi, tests_passed, tests_failed, outcome, response,
          request, sent, results, lastLine, detailLines, lastDetail, skipNotices, groupFailed, srvAllDown,
          srvAllOpen, retval, exitCode>>

-----------------------------------------------------------------------------
(* Bounds *)

\* largest length of the data.result list a server response carries
MaxResults == 2

-----------------------------------------------------------------------------
(* Environment variables: <<>> is "not set", <<s>> is "set to the string s" *)

EnvNames == {"PROM_BEARER_TOKEN", "PROM_BASIC_USER", "PROM_BASIC_PASS", "PROM_API_TOKEN"}

EnvValues == {<<>>, <<"">>, <<"abc123">>}

\* os.environ.get(name): None when missing, else the string
EnvGet(name) == env[name]

\* Python truthiness of an Optional[str]: None and "" are falsy
Truthy_presentOnly(v) == v # <<>>

Truthy(v) == v # <<>> /\ v[1] # ""

-----------------------------------------------------------------------------
(* JSON values, as response.json() returns them *)

JNull == [j |-> "null"]
JNum == [j |-> "num"]
JStr(s) == [j |-> "str", s |-> s]
JList(n) == [j |-> "list", len |-> n]
JDict(f) == [j |-> "dict", f |-> f]
EmptyDict == JDict(<<>>)

\* isinstance(data, dict) on the third component of an outcome
IsDict(data) == data.t = "json" /\ data.v.j = "dict"

\* dict.get(key, default)
DictGet(d, key, default) == IF key \in DOMAIN d.f THEN d.f[key] ELSE default

\* whether v has a .get method (only dicts do)
HasGet(v) == v.j = "dict"

\* whether len(v) is defined
HasLen(v) == v.j \in {"list", "dict"}

PyLen(v) == IF v.j = "list" THEN v.len ELSE Cardinality(DOMAIN v.f)

-----------------------------------------------------------------------------
(* Server behaviours for one requests.get call *)

\* status codes other than 200 a server may answer with
StatusCodes == {200, 204, 401, 503}

\* a query envelope as Prometheus sends it
Envelope(n) == JDict([status |-> JStr("success"), data |-> JDict([result |-> JList(n)])])

\* JSON bodies: well-formed envelopes and the shapes that deviate from them
JsonBodies ==
    {Envelope(n) : n \in 0..MaxResults}
    \cup { JList(0),
           EmptyDict,
           JDict([status |-> JStr("error")]),
           JDict([status |-> JStr("success")]),
           JDict([status |-> JStr("success"), data |-> JNull]),
           JDict([status |-> JStr("success"), data |-> JList(1)]),
           JDict([status |-> JStr("success"), data |-> JDict([result |-> JNull])]),
           JDict([status |-> JStr("success"), data |-> JDict([result |-> JNum])]) }

\* json is <<>> when the body is not JSON (plain text), else <<value>>
Responses ==
    {[kind |-> "exception"]}
    \cup {[kind |-> "http", status |-> c, json |-> <<>>] : c \in StatusCodes}
    \cup {[kind |-> "http", status |-> 200, json |-> <<b>>] : b \in JsonBodies}
    \cup {[kind |-> "http", status |-> 401, json |-> <<JDict([status |-> JStr("error")])>>]}

\* a healthy server without authentication: 200 and plain text or an envelope
WellFormed(resp) ==
    /\ resp.kind = "http"
    /\ resp.status = 200
    /\ (resp.json = <<>> \/ \E n \in 0..MaxResults : resp.json = <<Envelope(n)>>)

-----------------------------------------------------------------------------
(* _make_request *)

MakeRequest_any2xx(resp) ==
    IF resp.kind = "exception"
    THEN [succeeded |-> FALSE, code |-> 0, data |-> [t |-> "error"]]
    ELSE IF resp.status \in 200..299
         THEN IF resp.json # <<>>
              THEN [succeeded |-> TRUE, code |-> resp.status, data |-> [t |-> "json", v |-> resp.json[1]]]
              ELSE [succeeded |-> TRUE, code |-> resp.status, data |-> [t |-> "text"]]
         ELSE [succeeded |-> FALSE, code |-> resp.status, data |-> [t |-> "text"]]

MakeRequest_exceptionAsSuccess(resp) ==
    IF resp.kind = "exception"
    THEN [succeeded |-> TRUE, code |-> 0, data |-> [t |-> "error"]]
    ELSE IF resp.status = 200
         THEN IF resp.json # <<>>
              THEN [succeeded |-> TRUE, code |-> 200, data |-> [t |-> "json", v |-> resp.json[1]]]
              ELSE [succeeded |-> TRUE, code |-> 200, data |-> [t |-> "text"]]
         ELSE [succeeded |-> FALSE, code |-> resp.status, data |-> [t |-> "text"]]

\* the (success, code, data) tuple for one server behaviour
MakeRequest(resp) ==
    IF resp.kind = "exception"
    THEN [succeeded |-> FALSE, code |-> 0, data |-> [t |-> "error"]]
    ELSE IF resp.status = 200
         THEN IF resp.json # <<>>
              THEN [succeeded |-> TRUE, code |-> 200, data |-> [t |-> "json", v |-> resp.json[1]]]
              ELSE [succeeded |-> TRUE, code |-> 200, data |-> [t |-> "text"]]
         ELSE [succeeded |-> FALSE, code |-> resp.status, data |-> [t |-> "text"]]

\* the state change of one _make_request call answered by resp
Request(endpoint, query, auth, resp) ==
    /\ request' = [endpoint |-> endpoint, query |-> query, auth |-> auth]
    /\ response' = resp
    /\ outcome' = MakeRequest(resp)
    /\ sent' = sent + 1
    /\ srvAllDown' = (srvAllDown /\ resp.kind = "exception")
    /\ srvAllOpen' = (srvAllOpen /\ WellFormed(resp))

-----------------------------------------------------------------------------
(* _print_result *)

\* detail texts: f"HTTP {code}", f"{n} results", and the default ""
NoDetails == [text |-> "", n |-> 0]
HttpDetail(code) == [text |-> "HTTP", n |-> code]
CountDetail(n) == [text |-> "results", n |-> n]

\* the "Details:" line is printed when `details and self.verbose`
PrintDetails(details) ==
    IF details.text # "" /\ verbose
    THEN /\ detailLines' = detailLines + 1
         /\ lastDetail' = details
    ELSE UNCHANGED <<detailLines, lastDetail>>

PrintResult_dropFailed(test_name, success, details) ==
    /\ tests_passed' = IF success THEN tests_passed + 1 ELSE tests_passed
    /\ tests_failed' = tests_failed
    /\ results' = Append(results, test_name)
    /\ lastLine' = [verdict |-> IF success THEN "PASSED" ELSE "FAILED", name |-> test_name]
    /\ PrintDetails(details)

PrintResult_verboseCounts(test_name, success, details) ==
    /\ tests_passed' = IF success /\ ~verbose THEN tests_passed + 1 ELSE tests_passed
    /\ tests_failed' = IF success /\ ~verbose THEN tests_failed ELSE tests_failed + 1
    /\ results' = Append(results, test_name)
    /\ lastLine' = [verdict |-> IF success THEN "PASSED" ELSE "FAILED", name |-> test_name]
    /\ PrintDetails(details)

PrintResult(test_name, success, details) ==
    /\ tests_passed' = IF success THEN tests_passed + 1 ELSE tests_passed
    /\ tests_failed' = IF success THEN tests_failed ELSE tests_failed + 1
    /\ results' = Append(results, test_name)
    /\ lastLine' = [verdict |-> IF success THEN "PASSED" ELSE "FAILED", name |-> test_name]
    /\ PrintDetails(details)

\* `expected = success if code == 200 else not success`
Expected_plain(success, code) == success

Expected_rejects(success, code) == ~success

Expected(success, code) == IF code = 200 THEN success ELSE ~success

\* FAILED lines of the running group after this step
GroupFailedNext(first) ==
    groupFailed' = (IF first THEN 0 ELSE groupFailed) + (tests_failed' - tests_failed)

-----------------------------------------------------------------------------
(* Credentials attached to a request *)

NoAuth == [scheme |-> "none", secret |-> <<>>]
Bearer(token) == [scheme |-> "bearer", secret |-> <<token>>]
Basic(username, password) == [scheme |-> "basic", secret |-> <<username, password>>]
ApiToken(token) == [scheme |-> "api", secret |-> <<token>>]

\* the `queries` list of test_query_samples
Queries ==
    << [query |-> "up", description |-> "Target status"],
       [query |-> "prometheus_build_info", description |-> "Prometheus build info"],
       [query |-> "rate(prometheus_http_requests_total[5m])", description |-> "HTTP request rate"],
       [query |-> "histogram_quantile(0.95, prometheus_http_request_duration_seconds_bucket)",
        description |-> "95th percentile latency"] >>

-----------------------------------------------------------------------------
(* Initial state: main() has parsed its arguments and built the tester *)

Init ==
    /\ env \in [EnvNames -> EnvValues]
    /\ verbose \in BOOLEAN
    /\ pc = "no_auth_query"
    /\ qi = 1
    /\ tests_passed = 0
    /\ tests_failed = 0
    /\ outcome = [succeeded |-> FALSE, code |-> 0, data |-> [t |-> "error"]]
    /\ response = [kind |-> "none"]
    /\ request = [endpoint |-> "", query |-> "", auth |-> NoAuth]
    /\ sent = 0
    /\ results = <<>>
    /\ lastLine = [verdict |-> "", name |-> ""]
    /\ detailLines = 0
    /\ lastDetail = NoDetails
    /\ skipNotices = {}
    /\ groupFailed = 0
    /\ srvAllDown = TRUE
    /\ srvAllOpen = TRUE
    /\ retval = <<>>
    /\ exitCode = <<>>

\* one request/verdict pair whose verdict is the request's success flag
Probe(endpoint, query, auth, test_name, first, next) ==
    /\ \E resp \in Responses :
          /\ Request(endpoint, query, auth, resp)
          /\ PrintResult(test_name, outcome'.succeeded, HttpDetail(outcome'.code))
    /\ GroupFailedNext(first)
    /\ pc' = next
    /\ UNCHANGED <<env, verbose, qi, skipNotices, retval, exitCode>>

\* one request/verdict pair with a wrong credential
ProbeInvalid(auth, test_name, next) ==
    /\ \E resp \in Responses :
          /\ Request("/api/v1/query", "up", auth, resp)
          /\ PrintResult(test_name, Expected(outcome'.succeeded, outcome'.code),
                         HttpDetail(outcome'.code))
    /\ GroupFailedNext(FALSE)
    /\ pc' = next
    /\ UNCHANGED <<env, verbose, qi, skipNotices, retval, exitCode>>

\* the else branch of a credential check: print the notice, touch nothing else
Skip(group, next) ==
    /\ skipNotices' = skipNotices \cup {group}
    /\ pc' = next
    /\ UNCHANGED <<env, verbose, qi, tests_passed, tests_failed, outcome, response,
                   request, sent, results, lastLine, detailLines, lastDetail, groupFailed,
                   srvAllDown, srvAllOpen, retval, exitCode>>

-----------------------------------------------------------------------------
(* test_no_auth *)

NoAuthQuery ==
    /\ pc = "no_auth_query"
    /\ Probe("/api/v1/query", "up", NoAuth, "Query without auth", TRUE, "no_auth_metrics")

NoAuthMetrics ==
    /\ pc = "no_auth_metrics"
    /\ Probe("/metrics", "", NoAuth, "Metrics endpoint", FALSE, "no_auth_health")

NoAuthHealth ==
    /\ pc = "no_auth_health"
    /\ Probe("/-/healthy", "", NoAuth, "Health endpoint", FALSE, "bearer")

-----------------------------------------------------------------------------
(* test_bearer_token and its gate in run_all_tests *)

BearerEnabled == Truthy(EnvGet("PROM_BEARER_TOKEN"))

BearerValid ==
    /\ pc = "bearer"
    /\ BearerEnabled
    /\ Probe("/api/v1/query", "up", Bearer(EnvGet("PROM_BEARER_TOKEN")[1]),
             "Valid bearer token", TRUE, "bearer_invalid")

BearerInvalid ==
    /\ pc = "bearer_invalid"
    /\ ProbeInvalid(Bearer("invalid-token-12345"), "Invalid bearer token handling", "basic")

BearerSkip ==
    /\ pc = "bearer"
    /\ ~BearerEnabled
    /\ Skip("bearer", "basic")

-----------------------------------------------------------------------------
(* test_basic_auth and its gate in run_all_tests *)

BasicEnabled == Truthy(EnvGet("PROM_BASIC_USER")) /\ Truthy(EnvGet("PROM_BASIC_PASS"))

BasicValid ==
    /\ pc = "basic"
    /\ BasicEnabled
    /\ Probe("/api/v1/query", "up",
             Basic(EnvGet("PROM_BASIC_USER")[1], EnvGet("PROM_BASIC_PASS")[1]),
             "Valid credentials", TRUE, "basic_invalid")

BasicInvalid ==
    /\ pc = "basic_invalid"
    /\ ProbeInvalid(Basic("wronguser", "wrongpass"), "Invalid credentials handling", "api")

BasicSkip ==
    /\ pc = "basic"
    /\ ~BasicEnabled
    /\ Skip("basic", "api")

-----------------------------------------------------------------------------
(* test_api_token and its gate in run_all_tests *)

ApiEnabled == Truthy(EnvGet("PROM_API_TOKEN"))

ApiValid ==
    /\ pc = "api"
    /\ ApiEnabled
    /\ Probe("/api/v1/query", "up", ApiToken(EnvGet("PROM_API_TOKEN")[1]),
             "Valid API token", TRUE, "api_invalid")

ApiInvalid ==
    /\ pc = "api_invalid"
    /\ ProbeInvalid(ApiToken("invalid-api-token"), "Invalid API token handling", "samples")

ApiSkip ==
    /\ pc = "api"
    /\ ~ApiEnabled
    /\ Skip("api", "samples")

-----------------------------------------------------------------------------
(* test_query_samples *)

\* `success and isinstance(data, dict) and data.get("status") == "success"`
IsSuccessEnvelope(o) ==
    /\ o.succeeded
    /\ IsDict(o.data)
    /\ DictGet(o.data.v, "status", JNull) = JStr("success")

\* data.get("data", {})
DataField(o) == DictGet(o.data.v, "data", EmptyDict)

\* data.get("data", {}).get("result", [])
ResultField(o) == DictGet(DataField(o), "result", JList(0))

\* the result_count expression raises AttributeError when "data" is not a
\* dict and TypeError when "result" has no len()
CountRaises(o) ==
    IF HasGet(DataField(o)) THEN ~HasLen(ResultField(o)) ELSE TRUE

\* the verdict of the else branch: the request's success flag
SampleVerdict(o) == o.succeeded

\* the uncaught exception leaves run_all_tests and main; the interpreter
\* prints the traceback and exits with status 1
Raise ==
    /\ pc' = "crashed"
    /\ exitCode' = <<1>>
    /\ UNCHANGED <<qi, tests_passed, tests_failed, results, lastLine, detailLines, lastDetail,
                   groupFailed, retval>>

QuerySample ==
    /\ pc = "samples"
    /\ \E resp \in Responses :
          /\ Request("/api/v1/query", Queries[qi].query, NoAuth, resp)
          /\ IF IsSuccessEnvelope(outcome')
             THEN IF CountRaises(outcome')
                  THEN Raise
                  ELSE /\ PrintResult(Queries[qi].description, TRUE,
                                      CountDetail(PyLen(ResultField(outcome'))))
                       /\ GroupFailedNext(qi = 1)
                       /\ qi' = qi + 1
                       /\ pc' = IF qi = Len(Queries) THEN "summary" ELSE "samples"
                       /\ UNCHANGED <<retval, exitCode>>
             ELSE /\ PrintResult(Queries[qi].description, SampleVerdict(outcome'),
                                 HttpDetail(outcome'.code))
                  /\ GroupFailedNext(qi = 1)
                  /\ qi' = qi + 1
                  /\ pc' = IF qi = Len(Queries) THEN "summary" ELSE "samples"
                  /\ UNCHANGED <<retval, exitCode>>
    /\ UNCHANGED <<env, verbose, skipNotices>>

-----------------------------------------------------------------------------
(* the end of run_all_tests, and main *)

ReturnValue_anyPassed(failed) == tests_passed > 0

\* `return self.tests_failed == 0`
ReturnValue(failed) == failed = 0

\* `sys.exit(0 if success else 1)`
ExitStatus(success) == IF success THEN 0 ELSE 1

\* show_python_examples, the summary lines and the return statement
Summary ==
    /\ pc = "summary"
    /\ retval' = <<ReturnValue(tests_failed)>>
    /\ pc' = "returned"
    /\ UNCHANGED <<env, verbose, qi, tests_passed, tests_failed, outcome, response,
                   request, sent, results, lastLine, detailLines, lastDetail, skipNotices,
                   groupFailed, srvAllDown, srvAllOpen, exitCode>>

Exit ==
    /\ pc = "returned"
    /\ exitCode' = <<ExitStatus(retval[1])>>
    /\ pc' = "exited"
    /\ UNCHANGED <<env, verbose, qi, tests_passed, tests_failed, outcome, response,
                   request, sent, results, lastLine, detailLines, lastDetail, skipNotices,
                   groupFailed, srvAllDown, srvAllOpen, retval>>

Next ==
    \/ NoAuthQuery \/ NoAuthMetrics \/ NoAuthHealth
    \/ BearerValid \/ BearerInvalid \/ BearerSkip
    \/ BasicValid \/ BasicInvalid \/ BasicSkip
    \/ ApiValid \/ ApiInvalid \/ ApiSkip
    \/ QuerySample
    \/ Summary
    \/ Exit

Spec == Init /\ [][Next]_vars

-----------------------------------------------------------------------------
(* Vocabulary of the properties, stated on the observable state only *)

\* an environment variable that is present and not the empty string
Supplied(name) == env[name] # <<>> /\ env[name] # <<"">>

\* the variables each credential-gated group requires
Requires ==
    [bearer |-> {"PROM_BEARER_TOKEN"},
     basic |-> {"PROM_BASIC_USER", "PROM_BASIC_PASS"},
     api |-> {"PROM_API_TOKEN"}]

GatedGroups == {"bearer", "basic", "api"}

AllSupplied(g) == \A name \in Requires[g] : Supplied(name)

\* the two test names a credential-gated group prints
GroupNames ==
    [bearer |-> <<"Valid bearer token", "Invalid bearer token handling">>,
     basic |-> <<"Valid credentials", "Invalid credentials handling">>,
     api |-> <<"Valid API token", "Invalid API token handling">>]

NoAuthNames == <<"Query without auth", "Metrics endpoint", "Health endpoint">>

SampleNames ==
    <<"Target status", "Prometheus build info", "HTTP request rate", "95th percentile latency">>

\* the first n entries of a sequence
Prefix(seq, n) == SubSeq(seq, 1, n)

\* position of the run: later positions have larger ranks
PcRank ==
    [no_auth_query |-> 1, no_auth_metrics |-> 2, no_auth_health |-> 3,
     bearer |-> 4, bearer_invalid |-> 5, basic |-> 6, basic_invalid |-> 7,
     api |-> 8, api_invalid |-> 9, samples |-> 10, crashed |-> 10,
     summary |-> 11, returned |-> 12, exited |-> 13]

\* rank of the gate of each credential-gated group
GateRank == [bearer |-> 4, basic |-> 6, api |-> 8]

PastGate(g) == PcRank[pc] > GateRank[g]

Completed == pc \in {"summary", "returned", "exited"}

\* test names a credential-gated group has printed once it is over
GroupPart(g) == IF AllSupplied(g) THEN GroupNames[g] ELSE <<>>

\* the PASSED/FAILED lines a run must have printed when it is at pc
ExpectedNames ==
    IF PcRank[pc] <= 3 THEN Prefix(NoAuthNames, PcRank[pc] - 1)
    ELSE NoAuthNames
         \o (IF pc = "bearer_invalid" THEN Prefix(GroupNames.bearer, 1)
             ELSE IF PastGate("bearer") THEN GroupPart("bearer") ELSE <<>>)
         \o (IF pc = "basic_invalid" THEN Prefix(GroupNames.basic, 1)
             ELSE IF PastGate("basic") THEN GroupPart("basic") ELSE <<>>)
         \o (IF pc = "api_invalid" THEN Prefix(GroupNames.api, 1)
             ELSE IF PastGate("api") THEN GroupPart("api") ELSE <<>>)
         \o (IF PcRank[pc] >= 10 THEN Prefix(SampleNames, qi - 1) ELSE <<>>)

NumEnabled == Cardinality({g \in GatedGroups : AllSupplied(g)})

Range(seq) == {seq[i] : i \in 1..Len(seq)}

InvalidPcs == {"bearer_invalid", "basic_invalid", "api_invalid"}

PlainProbePcs ==
    {"no_auth_query", "no_auth_metrics", "no_auth_health", "bearer", "basic", "api"}

-----------------------------------------------------------------------------
(* C1 *)

\* C1: once run_all_tests has returned, its value is TRUE exactly when the
\* failed counter is 0, and the process exits 0 exactly when that value is
\* TRUE and 1 otherwise, whatever groups ran and whatever the server did.
C1_ReturnAndExit ==
    /\ pc \in {"returned", "exited"} =>
          /\ retval \in {<<TRUE>>, <<FALSE>>}
          /\ (retval = <<TRUE>>) <=> (tests_failed = 0)
    /\ pc = "exited" => exitCode = (IF retval = <<TRUE>> THEN <<0>> ELSE <<1>>)

C1_Witness ==
    /\ pc = "exited"
    /\ tests_failed > 0
    /\ tests_passed > 0
    /\ retval = <<FALSE>>
    /\ exitCode = <<1>>
    /\ NumEnabled = 3

-----------------------------------------------------------------------------
(* C2 *)

C2_GateInv ==
    \A g \in GatedGroups :
        IF ~PastGate(g)
        THEN g \notin skipNotices /\ Range(GroupNames[g]) \cap Range(results) = {}
        ELSE IF AllSupplied(g)
             THEN g \notin skipNotices /\ GroupNames[g][1] \in Range(results)
             ELSE g \in skipNotices /\ Range(GroupNames[g]) \cap Range(results) = {}

C2_SkipFrame ==
    skipNotices' # skipNotices =>
        /\ Cardinality(skipNotices') = Cardinality(skipNotices) + 1
        /\ tests_passed' = tests_passed
        /\ tests_failed' = tests_failed
        /\ sent' = sent
        /\ request' = request
        /\ results' = results

\* C2: a credential-gated group runs iff every environment variable it
\* requires is present and non-empty; otherwise its skip notice is printed,
\* and the step that prints it sends no request and changes neither counter.
C2_Gating == []C2_GateInv /\ [][C2_SkipFrame]_vars

C2_Witness ==
    /\ pc = "exited"
    /\ env["PROM_BASIC_USER"] = <<"abc123">>
    /\ env["PROM_BASIC_PASS"] = <<"">>
    /\ env["PROM_API_TOKEN"] = <<"">>
    /\ skipNotices = {"basic", "api"}
    /\ "Valid bearer token" \in Range(results)

-----------------------------------------------------------------------------
(* C3 *)

C3_TallyInv ==
    /\ tests_passed + tests_failed = Len(results)
    /\ results = ExpectedNames
    /\ sent = 0 => tests_passed = 0 /\ tests_failed = 0
    /\ Completed => tests_passed + tests_failed = 3 + 2 * NumEnabled + 4

C3_Monotone == tests_passed' >= tests_passed /\ tests_failed' >= tests_failed

\* C3: in every state passed + failed is the number of assertions executed
\* so far, neither counter ever decreases, and a completed run has
\* 3 + 2 * (enabled credential groups) + 4 of them.
C3_Tally == []C3_TallyInv /\ [][C3_Monotone]_vars

C3_Witness ==
    /\ pc = "exited"
    /\ NumEnabled = 2
    /\ "basic" \in skipNotices
    /\ tests_failed = 5
    /\ tests_passed = 6

-----------------------------------------------------------------------------
(* C4 *)

C4_Step ==
    results' # results =>
        /\ Len(results') = Len(results) + 1
        /\ lastLine'.verdict \in {"PASSED", "FAILED"}
        /\ lastLine'.verdict = "PASSED" =>
              tests_passed' = tests_passed + 1 /\ tests_failed' = tests_failed
        /\ lastLine'.verdict = "FAILED" =>
              tests_failed' = tests_failed + 1 /\ tests_passed' = tests_passed
        /\ pc \in PlainProbePcs => (lastLine'.verdict = "PASSED" <=> outcome'.succeeded)
        /\ detailLines' = detailLines + (IF verbose THEN 1 ELSE 0)

\* C4: every _print_result call adds 1 to exactly one counter, passed for a
\* true verdict and failed for a false one, with or without verbosity; the
\* verbosity flag only decides whether the Details line is printed.
C4_ExactlyOne == [][C4_Step]_vars

C4_Witness ==
    /\ verbose
    /\ lastLine = [verdict |-> "FAILED", name |-> "Health endpoint"]
    /\ tests_failed = 1
    /\ tests_passed = 2
    /\ detailLines = 3

-----------------------------------------------------------------------------
(* C5 *)

\* C5: while every request has ended in a transport failure, the latest
\* outcome is succeeded = FALSE with status 0, the run has not crashed and
\* can always take its next step, and when it exits the exit code is 1.
C5_Unreachable ==
    srvAllDown =>
        /\ sent > 0 => outcome.succeeded = FALSE /\ outcome.code = 0
        /\ tests_failed >= (IF Len(results) < 3 THEN Len(results) ELSE 3)
        /\ pc # "crashed"
        /\ pc # "exited" => ENABLED Next
        /\ pc \in {"returned", "exited"} => retval = <<FALSE>>
        /\ pc = "exited" => exitCode = <<1>>

C5_Witness ==
    /\ srvAllDown
    /\ pc = "exited"
    /\ exitCode = <<1>>
    /\ NumEnabled = 3
    /\ sent = 13
    /\ tests_failed = 10

-----------------------------------------------------------------------------
(* C6 *)

\* C6: while every request has been answered with HTTP 200 and a well-formed
\* body, every executed assertion is PASSED (3 for the no-auth group, 2 for
\* each enabled credential group), every disabled credential group has its
\* skip notice, failed stays 0 and the exit code is 0.
C6_OpenServer ==
    srvAllOpen =>
        /\ tests_failed = 0
        /\ results = ExpectedNames
        /\ tests_passed = Len(ExpectedNames)
        /\ lastLine.verdict # "FAILED"
        /\ pc # "crashed"
        /\ \A g \in GatedGroups : PastGate(g) /\ ~AllSupplied(g) => g \in skipNotices
        /\ PcRank[pc] > 3 => Prefix(results, 3) = NoAuthNames /\ tests_passed >= 3
        /\ Completed => tests_passed = 3 + 2 * NumEnabled + 4
        /\ pc = "exited" => exitCode = <<0>>

C6_Witness ==
    /\ srvAllOpen
    /\ pc = "exited"
    /\ exitCode = <<0>>
    /\ env["PROM_BEARER_TOKEN"] = <<"abc123">>
    /\ skipNotices = {"basic", "api"}
    /\ tests_passed = 9

-----------------------------------------------------------------------------
(* C7 *)

\* C7: no request failure and no response shape makes the run crash: the
\* run is never in the crashed state and, until it has exited, it can
\* always take its next step.
C7_NoCrash ==
    /\ pc # "crashed"
    /\ pc # "exited" => ENABLED Next

-----------------------------------------------------------------------------
(* C8 *)

\* C8: the outcome of a request has succeeded = TRUE iff its status is 200,
\* with the parsed body when the body is JSON and the raw text otherwise;
\* every other status gives FALSE with the raw text; status 0 occurs exactly
\* on a transport failure; each call sends exactly one request.
C8_Outcome ==
    /\ sent > 0 =>
          /\ outcome.succeeded <=> outcome.code = 200
          /\ outcome.code = 0 <=> response.kind = "exception"
          /\ response.kind = "http" =>
                /\ outcome.code = response.status
                /\ outcome.succeeded <=> response.status = 200
                /\ response.status # 200 => outcome.data = [t |-> "text"]
                /\ response.status = 200 /\ response.json = <<>> =>
                      outcome.data = [t |-> "text"]
                /\ response.status = 200 /\ response.json # <<>> =>
                      outcome.data = [t |-> "json", v |-> response.json[1]]
    /\ sent = Len(results) + (IF pc = "crashed" THEN 1 ELSE 0)

C8_Witness ==
    /\ response.kind = "http"
    /\ response.status = 204
    /\ outcome.succeeded = FALSE
    /\ outcome.code = 204
    /\ sent = 2

-----------------------------------------------------------------------------
(* C9 *)

C9_GroupInv ==
    /\ pc \in InvalidPcs => groupFailed <= 1
    /\ pc = "basic" /\ AllSupplied("bearer") => groupFailed <= 1
    /\ pc = "api" /\ AllSupplied("basic") => groupFailed <= 1
    /\ pc = "samples" /\ qi = 1 /\ AllSupplied("api") => groupFailed <= 1

C9_InvalidStep ==
    pc \in InvalidPcs /\ pc' # pc =>
        /\ lastLine'.verdict = "PASSED"
        /\ tests_passed' = tests_passed + 1
        /\ tests_failed' = tests_failed

\* C9: the invalid-credential assertion of a credential group is PASSED for
\* every outcome of its request (200, any other status, transport failure),
\* so it never adds to failed and a credential group adds at most 1.
C9_InvalidAlwaysPasses == []C9_GroupInv /\ [][C9_InvalidStep]_vars

C9_Witness ==
    /\ pc = "basic"
    /\ lastLine = [verdict |-> "PASSED", name |-> "Invalid bearer token handling"]
    /\ outcome.code = 401
    /\ outcome.succeeded = FALSE
    /\ groupFailed = 1

-----------------------------------------------------------------------------
(* C10 *)

SamplesOver == Completed \/ pc = "crashed"

\* C10: once the sample-query group is over it has recorded exactly 4
\* assertions, one per query in list order, and each sample assertion is
\* PASSED iff its request returned HTTP 200, whatever the body.
C10_FourSamples ==
    /\ SamplesOver => results = NoAuthNames \o GroupPart("bearer") \o GroupPart("basic")
                                \o GroupPart("api") \o SampleNames
    /\ Len(results) > 3 + 2 * NumEnabled /\ PcRank[pc] >= 10 /\ pc # "crashed" =>
          (lastLine.verdict = "PASSED" <=> outcome.code = 200)

====
